---- MODULE Spec2Model ----
(***************************************************************************)
(* Model of the cross-section evaluators of TritiumPlasmaEffects:          *)
(* Kim1994 (Kim1994.py), RuddXSec (Rudd1991.py), MottXSec (Mott.py) and    *)
(* ExcitationXSec (Stone2002.py).                                          *)
(*                                                                         *)
(* One evaluator instance is constructed (Init) and then receives any      *)
(* sequence of method calls.  Every call is one action; its outcome (the   *)
(* returned value or the exception raised) is recorded in `seen`.          *)
(*                                                                         *)
(* Numbers.  Energies handed to the constructors and methods are Python    *)
(* floats (the annotated type); the model carries them as integers in      *)
(* units of 1e-5 eV, which represents every literal of the source exactly  *)
(* (13.59844 eV is the finest).  Arithmetic is exact (rationals), so a     *)
(* test such as t - w == 0 is decided as T = W.  Where a result involves   *)
(* np.log or a non-integer power the model keeps only its class: "finite"  *)
(* or "nonfinite" (an infinity or a NaN).                                  *)
(***************************************************************************)
EXTENDS Integers, Sequences, FiniteSets

VARIABLES inst, inst0, seen

vars == <<inst, inst0, seen>>

----------------------------------------------------------------------------
(* Values and outcomes *)

\* x eV in model units (1e-5 eV)
eV(x) == x * 100000

Abs(x) == IF x < 0 THEN -x ELSE x

RECURSIVE GCD(_, _)
GCD(a, b) == IF b = 0 THEN a ELSE GCD(b, a % b)

\* the exact rational n/d (d # 0), normalised: positive denominator, lowest terms
Num(n, d) ==
  LET g == GCD(Abs(n), Abs(d))
      s == IF d < 0 THEN -1 ELSE 1
  IN [ty |-> "num", n |-> s * (n \div g), d |-> s * (d \div g)]

\* Python's None (a function body that falls off its end)
NoneVal == [ty |-> "none", n |-> 0, d |-> 1]

\* a float known only by its class
Finite == [ty |-> "finite", n |-> 0, d |-> 1]
NonFinite == [ty |-> "nonfinite", n |-> 0, d |-> 1]

\* a Python complex: what x ** y is for Python floats x < 0 and a fractional y
Complex == [ty |-> "complex", n |-> 0, d |-> 1]

IsNumber(v) == v.ty \in {"num", "finite", "nonfinite"}

Ret(v) == [kind |-> "return", exc |-> "", val |-> v]
Raise(e) == [kind |-> "raise", exc |-> e, val |-> NoneVal]

\* the pair of arrays (energies, cross-sections) a data method returns
Arrays(t) == [ty |-> "arrays", energies |-> t.energies, xsecs |-> t.xsecs]

\* a + b, both exact rationals; the common denominator is the lcm
RAdd(a, b) ==
  LET l == (a.d \div GCD(a.d, b.d)) * b.d
  IN Num(a.n * (l \div a.d) + b.n * (l \div b.d), l)

\* an energy value (exact, in eV) as model units
Units(v) == v.n * (100000 \div v.d)

\* statements evaluated in order: the first exception raised propagates,
\* otherwise the final expression is the result
Chain(steps, final) ==
  IF \E i \in 1..Len(steps) : steps[i].kind = "raise"
  THEN steps[CHOOSE i \in 1..Len(steps) :
                /\ steps[i].kind = "raise"
                /\ \A j \in 1..(i - 1) : steps[j].kind # "raise"]
  ELSE final

\* x / y on Python floats: a None operand is a TypeError, a zero divisor a
\* ZeroDivisionError (Python raises, it does not return inf or nan)
PyDiv(x, y, yIsZero) ==
  IF ~IsNumber(x) \/ ~IsNumber(y) THEN Raise("TypeError")
  ELSE IF yIsZero THEN Raise("ZeroDivisionError")
  ELSE Ret(Finite)

\* x ** -k on a Python float: 0.0 to a negative power is a ZeroDivisionError
PyNegPow(xIsZero) == IF xIsZero THEN Raise("ZeroDivisionError") ELSE Ret(Finite)

\* np.log(t) for the float t = T / B with B > 0: -inf at 0 and nan below 0,
\* under a RuntimeWarning, never an exception; the result is a numpy.float64
NpLog(T) == IF T > 0 THEN Finite ELSE NonFinite

----------------------------------------------------------------------------
(* Python floats: IEEE 754 binary64, round to nearest, ties to even.  Used  *)
(* where the outcome of the code hangs on the last bit of a result.         *)

\* the number of significand bits of a float
Precision == 53

\* Natural numbers below 2^120 in 8 limbs of 15 bits, the lowest first
LimbBits == 15
Base == 32768
Limbs == 8

BigZero == [i \in 1..Limbs |-> 0]

\* n as limbs, 0 <= n < 2^31
BigOfNat(n) ==
  [i \in 1..Limbs |-> CASE i = 1 -> n % Base
                        [] i = 2 -> (n \div Base) % Base
                        [] i = 3 -> n \div (Base * Base)
                        [] OTHER -> 0]

\* -1, 0 or 1 as a < b, a = b or a > b on their k lowest limbs
CmpLow(a, b, k) ==
  LET diff == {i \in 1..k : a[i] # b[i]}
  IN IF diff = {} THEN 0
     ELSE LET i == CHOOSE j \in diff : \A l \in diff : l <= j
          IN IF a[i] < b[i] THEN -1 ELSE 1

BigCmp(a, b) == CmpLow(a, b, Limbs)

\* a + b: the carry into limb i is 1 when the lower limbs of a exceed the
\* complement of the lower limbs of b
BigAdd(a, b) ==
  LET comp == [i \in 1..Limbs |-> Base - 1 - b[i]]
  IN [i \in 1..Limbs |->
        (a[i] + b[i] + (IF CmpLow(a, comp, i - 1) > 0 THEN 1 ELSE 0)) % Base]

\* a - b for a >= b: limb i borrows when the lower limbs of a are below
\* those of b
BigSub(a, b) ==
  [i \in 1..Limbs |->
     (a[i] - b[i] - (IF CmpLow(a, b, i - 1) < 0 THEN 1 ELSE 0) + Base) % Base]

\* 2 * a + bit
BigDouble(a, bit) ==
  [i \in 1..Limbs |->
     (2 * a[i] + (IF i = 1 THEN bit ELSE a[i - 1] \div (Base \div 2))) % Base]

\* a * 2^k
BigShiftLeft(a, k) ==
  [i \in 1..Limbs |->
     LET j == i - k \div LimbBits
         o == k % LimbBits
     IN (IF j >= 1 THEN (a[j] * 2^o) % Base ELSE 0)
        + (IF j >= 2 THEN a[j - 1] \div 2^(LimbBits - o) ELSE 0)]

\* a \div 2^k
BigShiftRight(a, k) ==
  [i \in 1..Limbs |->
     LET j == i + k \div LimbBits
         o == k % LimbBits
     IN (IF j <= Limbs THEN a[j] \div 2^o ELSE 0)
        + (IF j + 1 <= Limbs THEN (a[j + 1] % 2^o) * 2^(LimbBits - o) ELSE 0)]

\* the number of bits of a, 0 for 0
BitLength(a) ==
  LET nz == {i \in 1..Limbs : a[i] # 0}
  IN IF nz = {} THEN 0
     ELSE LET k == CHOOSE j \in nz : \A l \in nz : l <= j
          IN LimbBits * (k - 1)
             + (CHOOSE n \in 1..LimbBits : 2^(n - 1) <= a[k] /\ a[k] < 2^n)

\* bit p of a, the lowest being bit 0
BigBit(a, p) == (a[p \div LimbBits + 1] \div 2^(p % LimbBits)) % 2

\* a float is sign * m * 2^e with 2^52 <= m < 2^53, or 0.0 (m = 0)
FZero == [sign |-> 1, m |-> BigZero, e |-> 0]

\* Each operator below evaluates its operands once: it binds them to the
\* variables of a one-element set before it uses them.

\* the float nearest to sign * a * 2^e; sticky: the exact value lies above
\* a * 2^e, by less than 2^e
Rounded(sign, a, e, sticky) ==
  LET L == BitLength(a)
      k == L - Precision
  IN IF L = 0 THEN FZero
     ELSE IF k <= 0
     THEN [sign |-> sign, m |-> BigShiftLeft(a, -k), e |-> e + k]
     ELSE LET keep == BigShiftRight(a, k)
              rest == sticky \/ BigShiftLeft(BigShiftRight(a, k - 1), k - 1) # a
              up == BigBit(a, k - 1) = 1 /\ (rest \/ keep[1] % 2 = 1)
          IN CHOOSE out \in
               {IF BitLength(m1) > Precision
                THEN [sign |-> sign, m |-> BigShiftRight(m1, 1), e |-> e + k + 1]
                ELSE [sign |-> sign, m |-> m1, e |-> e + k] :
                  m1 \in {IF up THEN BigAdd(keep, BigOfNat(1)) ELSE keep}} : TRUE

Double(sign, a0, e, sticky) ==
  CHOOSE out \in {Rounded(sign, a, e, sticky) : a \in {a0}} : TRUE

\* one step of the long division by 100000: the next bit of the quotient
DecStep(st) ==
  LET r1 == 2 * st.r
      bit == IF r1 >= 100000 THEN 1 ELSE 0
  IN [q |-> BigDouble(st.q, bit), r |-> r1 - bit * 100000]

\* n steps
RECURSIVE DecLoop(_, _)
DecLoop(st0, n0) ==
  CHOOSE out \in
    {IF n = 0 THEN st
     ELSE IF n = 1 THEN DecStep(st)
     ELSE DecLoop(DecLoop(st, n \div 2), n - n \div 2) : st \in {st0}, n \in {n0}} : TRUE

\* the float a decimal literal or argument n / 100000 denotes
PyFloat(n) ==
  IF n = 0 THEN FZero
  ELSE CHOOSE out \in
         {Double(IF n < 0 THEN -1 ELSE 1, st.q, -80, st.r # 0) :
            st \in {DecLoop([q |-> BigOfNat(Abs(n) \div 100000),
                             r |-> Abs(n) % 100000], 80)}} : TRUE

\* one step of the long division by the significand d
DivStep(st, d) ==
  LET bit == IF BigCmp(st.r, d) >= 0 THEN 1 ELSE 0
      r1 == IF bit = 1 THEN BigSub(st.r, d) ELSE st.r
  IN [q |-> BigDouble(st.q, bit), r |-> BigDouble(r1, 0)]

\* n steps
RECURSIVE DivLoop(_, _, _)
DivLoop(st0, d, n0) ==
  CHOOSE out \in
    {IF n = 0 THEN st
     ELSE IF n = 1 THEN DivStep(st, d)
     ELSE DivLoop(DivLoop(st, d, n \div 2), d, n - n \div 2) : st \in {st0}, n \in {n0}} : TRUE

\* x / y for floats, y # 0.0
FDiv(x0, y0) ==
  CHOOSE out \in
    {IF x.m = BigZero THEN FZero
     ELSE CHOOSE q \in
            {Double(x.sign * y.sign, st.q, x.e - y.e - (Precision + 3), st.r # BigZero) :
               st \in {DivLoop([q |-> BigZero, r |-> x.m], y.m, Precision + 4)}} : TRUE :
       x \in {x0}, y \in {y0}} : TRUE

\* the sum of the floats x and y, exponents less than 60 apart, aligned as
\* X * 2^e and Y * 2^e
Sum(x, y, e, X, Y) ==
  IF x.sign = y.sign THEN Double(x.sign, BigAdd(X, Y), e, FALSE)
  ELSE IF BigCmp(X, Y) = 0 THEN FZero
  ELSE IF BigCmp(X, Y) > 0 THEN Double(x.sign, BigSub(X, Y), e, FALSE)
  ELSE Double(y.sign, BigSub(Y, X), e, FALSE)

\* x + y for floats
FAdd(x0, y0) ==
  CHOOSE out \in
    {IF x.m = BigZero THEN y
     ELSE IF y.m = BigZero THEN x
     ELSE LET e == IF x.e < y.e THEN x.e ELSE y.e
          IN CHOOSE r \in
               {Sum(x, y, e, X, Y) : X \in {BigShiftLeft(x.m, x.e - e)},
                                     Y \in {BigShiftLeft(y.m, y.e - e)}} : TRUE :
       x \in {x0}, y \in {y0}} : TRUE

\* x < y for floats x, y > 0.0
FLess(x, y) == x.e < y.e \/ (x.e = y.e /\ BigCmp(x.m, y.m) < 0)

\* 1.0, and the next float above it, 1.0 + 2^-52
FOne == [sign |-> 1, m |-> BigShiftLeft(BigOfNat(1), Precision - 1), e |-> 1 - Precision]
FOnePlusUlp == [FOne EXCEPT !.m = BigAdd(FOne.m, BigOfNat(1))]

----------------------------------------------------------------------------
(* Kim1994.py *)

\* the coefficients <<a, b, c, d, e, f>> set in DiffOscillatorStrength, in
\* units of 1e-6; <<>> stands for the else branch (raise ValueError)
Coeff_DiffOscillatorStrength(species) ==
  CASE species = "H"  -> <<0, -22473, 1177500, -462640, 89064, 0>>
    [] species = "He" -> <<0, 0, 12178000, -29585000, 31251000, -12175000>>
    [] species = "H2" -> <<0, 0, 1126200, 6398200, -7805500, 2144000>>
    [] OTHER -> <<>>

\* the coefficients set in DiffOscillatorStrength_w
Coeff_DiffOscillatorStrength_w(species) ==
  CASE species = "H"  -> <<0, -22473, 1177500, -462640, 89064, 0>>
    [] species = "He" -> <<0, 0, 12178000, -29585000, 31251000, -12175000>>
    [] species = "H2" -> <<0, 0, 1126200, 6398200, -7805500, 2144000>>
    [] OTHER -> <<>>

\* the _D coefficients with two digits of d exchanged for H2
Coeff_D_Typo(species) ==
  CASE species = "H"  -> <<0, -22473, 1177500, -462640, 89064, 0>>
    [] species = "He" -> <<0, 0, 12178000, -29585000, 31251000, -12175000>>
    [] species = "H2" -> <<0, 0, 1126200, 6389200, -7805500, 2144000>>
    [] OTHER -> <<>>

\* the coefficients set in _D
Coeff_D(species) ==
  CASE species = "H"  -> <<0, -22473, 1177500, -462640, 89064, 0>>
    [] species = "He" -> <<0, 0, 12178000, -29585000, 31251000, -12175000>>
    [] species = "H2" -> <<0, 0, 1126200, 6398200, -7805500, 2144000>>
    [] OTHER -> <<>>

RECURSIVE Pow(_, _)
Pow(x, k) == IF k = 0 THEN 1 ELSE x * Pow(x, k - 1)

\* DiffOscillatorStrength(y) for an integer-valued y:
\* a*y + b*y**2 + c*y**3 + d*y**4 + e*y**5 + f*y**6
Kim_DiffOscillatorStrength(y, species) ==
  LET co == Coeff_DiffOscillatorStrength(species)
  IN IF co = <<>> THEN Raise("ValueError")
     ELSE Ret(Num(co[1] * y + co[2] * Pow(y, 2) + co[3] * Pow(y, 3)
                  + co[4] * Pow(y, 4) + co[5] * Pow(y, 5) + co[6] * Pow(y, 6),
                  1000000))

\* what a call DiffOscillatorStrength_w(w) does before its value is formed:
\* the species branch, then a / (w + 1), a division of Python floats
DiffOscillatorStrength_w_Status(species, wPlus1IsZero) ==
  IF Coeff_DiffOscillatorStrength_w(species) = <<>> THEN Raise("ValueError")
  ELSE PyDiv(Finite, Finite, wPlus1IsZero)

\* DiffOscillatorStrength_w(w) for an integer-valued w:
\* a/(w+1) + b/(w+1)**2 + c/(w+1)**3 + d/(w+1)**4 + e/(w+1)**5 + f/(w+1)**6
Kim_DiffOscillatorStrength_w(w, species) ==
  LET co == Coeff_DiffOscillatorStrength_w(species)
      st == DiffOscillatorStrength_w_Status(species, w + 1 = 0)
      x == w + 1
  IN IF st.kind = "raise" THEN st
     ELSE Ret(Num(co[1] * Pow(x, 5) + co[2] * Pow(x, 4) + co[3] * Pow(x, 3)
                  + co[4] * Pow(x, 2) + co[5] * x + co[6],
                  1000000 * Pow(x, 6)))

Kim_N(species) ==
  CASE species = "H"  -> Ret(Num(1, 1))
    [] species = "He" -> Ret(Num(2, 1))
    [] species = "H2" -> Ret(Num(2, 1))
    [] OTHER -> Raise("ValueError")

\* _B written like _Ni, without the else branch
Kim_B_NoElse(species) ==
  CASE species = "H"  -> Ret(Num(1360570, 100000))
    [] species = "He" -> Ret(Num(2459000, 100000))
    [] species = "H2" -> Ret(Num(1543000, 100000))
    [] OTHER -> Ret(NoneVal)

\* the binding energy, eV
Kim_B(species) ==
  CASE species = "H"  -> Ret(Num(1360570, 100000))
    [] species = "He" -> Ret(Num(2459000, 100000))
    [] species = "H2" -> Ret(Num(1543000, 100000))
    [] OTHER -> Raise("ValueError")

\* _Ni has no else branch: for any other species the body falls off its
\* end and the call returns None
Kim_Ni(species) ==
  CASE species = "H"  -> Ret(Num(4343, 10000))
    [] species = "He" -> Ret(Num(1605, 1000))
    [] species = "H2" -> Ret(Num(1173, 1000))
    [] OTHER -> Ret(NoneVal)

\* the average kinetic energy of the bound electrons, eV
Kim_U(species) ==
  CASE species = "H"  -> Ret(Num(1360570, 100000))
    [] species = "He" -> Ret(Num(3951000, 100000))
    [] species = "H2" -> Ret(Num(2568000, 100000))
    [] OTHER -> Raise("ValueError")

\* _D: t = T / B; the species branch; tTerm = (t + 1) / 2; tTerm**-k for
\* k = 2..6 (tTerm == 0 exactly when T = -B); the sum divided by _N()
Kim_D(T, species) ==
  LET b == Kim_B(species)
      n == Kim_N(species)
      t == Chain(<<b>>, PyDiv(Finite, b.val, FALSE))
      branch == IF Coeff_D(species) = <<>> THEN Raise("ValueError") ELSE Ret(Finite)
      pow == PyNegPow(T + Units(b.val) = 0)
      quot == Chain(<<n>>, PyDiv(Finite, n.val, FALSE))
  IN Chain(<<t, branch, pow, quot>>, Ret(Finite))

\* _S: bohrXSec * _N() * (Rydberg / _B())**2
Kim_S(species) ==
  LET n == Kim_N(species)
      b == Kim_B(species)
      prod == IF IsNumber(n.val) THEN Ret(Finite) ELSE Raise("TypeError")
      quot == Chain(<<b>>, PyDiv(Finite, b.val, FALSE))
  IN Chain(<<n, prod, quot>>, Ret(Finite))

\* t + u + 1 == 0.0 with t = T / B and u = U / B, all floats: the divisor of
\* prefac (lines 227, 248).  Off T = -(U + B) the sum is at least 1e-5 / B
\* away from 0, far beyond rounding; at T = -(U + B) rounding decides
Kim_DivisorIsZero(T, U, B) ==
  /\ B # 0
  /\ T + U + B = 0
  /\ FAdd(FAdd(FDiv(PyFloat(T), PyFloat(B)), FDiv(PyFloat(U), PyFloat(B))), FOne) = FZero

\* SingleDiffXSec_W(W), statement by statement (lines 224-234)
Kim_SingleDiffXSec_W(T, W, species) ==
  LET b == Kim_B(species)
      u == Kim_U(species)
      n == Kim_N(species)
      ni == Kim_Ni(species)
      s == Kim_S(species)
      B == Units(b.val)
      U == Units(u.val)
      t == Chain(<<b>>, PyDiv(Finite, b.val, FALSE))
      uu == Chain(<<u, b>>, PyDiv(u.val, b.val, FALSE))
      w == Chain(<<b>>, PyDiv(Finite, b.val, FALSE))
      prefac == Chain(<<s, b>>, PyDiv(s.val, Finite, Kim_DivisorIsZero(T, U, B)))
      niN == Chain(<<ni, n>>, PyDiv(ni.val, n.val, FALSE))
      term1 == Chain(<<niN,
                       PyDiv(Finite, Finite, T + B = 0),
                       PyDiv(Finite, Finite, W + B = 0),
                       PyDiv(Finite, Finite, T = W)>>, Ret(Finite))
      term2 == Chain(<<niN,
                       PyDiv(Finite, Finite, W + B = 0),
                       PyDiv(Finite, Finite, T = W)>>, Ret(Finite))
      \* np.log(t) / (N * (w + 1)) divides a numpy.float64: no exception
      term3 == Chain(<<n, DiffOscillatorStrength_w_Status(species, W + B = 0)>>,
                     Ret(NpLog(T)))
  IN Chain(<<t, uu, w, prefac, term1, term2, term3>>, Ret(NpLog(T)))

\* TotalXSec(), statement by statement (lines 246-249)
Kim_TotalXSec(T, species) ==
  LET b == Kim_B(species)
      u == Kim_U(species)
      n == Kim_N(species)
      ni == Kim_Ni(species)
      s == Kim_S(species)
      B == Units(b.val)
      U == Units(u.val)
      t == Chain(<<b>>, PyDiv(Finite, b.val, FALSE))
      uu == Chain(<<u, b>>, PyDiv(u.val, b.val, FALSE))
      prefactor == Chain(<<s>>, PyDiv(s.val, Finite, Kim_DivisorIsZero(T, U, B)))
      d == Kim_D(T, species)
      niN == Chain(<<ni, n>>, PyDiv(ni.val, n.val, FALSE))
      \* (t - 1) / t divides Python floats; np.log(t) / (t + 1) divides a
      \* numpy.float64 and raises nothing
      frac == PyDiv(Finite, Finite, T = 0)
  IN Chain(<<t, uu, prefactor, d, niN, frac>>, Ret(NpLog(T)))

----------------------------------------------------------------------------
(* Constants.py, Rudd1991.py *)

\* IONIZATIONENERGYH = 13.59844 eV, in model units
IONIZATIONENERGYH == 1359844

\* the number of parameters `def __S():` declares (it declares no self)
S_Parameters == 0

\* self.f(a1, ..., ak) passes k + 1 positional arguments, the instance first;
\* a function declaring another number of parameters raises TypeError
BoundCall(parameters, k, body) ==
  IF parameters = k + 1 THEN body ELSE Raise("TypeError")

\* __S: 4 pi a0^2 (RYDBERGEV / IONIZATIONENERGYH)^2, called as self.__S()
Rudd_S == BoundCall(S_Parameters, 0, Ret(Finite))

\* __F: (A1 * np.log(t) + A2 + A3 / t) / t; A3 / t divides Python floats, the
\* outer quotient divides a numpy.float64
Rudd_F(T) == Chain(<<PyDiv(Finite, Finite, T = 0)>>, Ret(NpLog(T)))

\* __g_1: t**(1 - n) with n = 2.4 is t**-1.4 (0.0 to a negative power
\* raises), then 2.0 / (t + 1), then t**(1 - n/2) = t**-0.2, Python floats:
\* a negative t to a fractional power is a complex number
Rudd_g_1(T) ==
  Chain(<<PyNegPow(T = 0), PyDiv(Finite, Finite, T + IONIZATIONENERGYH = 0)>>,
        Ret(IF T < 0 THEN Complex ELSE Finite))

\* __f_1: 1/(w+1)**n + 1/(t-w)**n - 1/((w+1)*(t-w))**(n/2), Python floats:
\* a negative w + 1 or t - w to the power 2.4 is a complex number
Rudd_f_1(T, W) ==
  Chain(<<PyDiv(Finite, Finite, W + IONIZATIONENERGYH = 0),
          PyDiv(Finite, Finite, T = W)>>,
        Ret(IF W + IONIZATIONENERGYH < 0 \/ T < W THEN Complex ELSE Finite))

\* np.cos(theta) == 1.0 for theta in milliradians, |theta| < 2 pi
CosIsOne(theta) == theta = 0

Sgn(x) == IF x > 0 THEN 1 ELSE IF x < 0 THEN -1 ELSE 0

\* the class of a numpy.float64 result: finite when the condition holds and
\* every operand is finite
Class(ok, operands) ==
  IF ok /\ \A i \in 1..Len(operands) : operands[i].val.ty = "finite"
  THEN Finite ELSE NonFinite

\* np.sqrt((w + 1.0) / t) in __G2, for t # 0: "nan" (negative radicand),
\* "zero" (w + 1.0 == 0.0), or a positive number "below" 1.0, "one" or "above"
\* 1.0.  Off T = W + I the quotient is far from 1.0; at T = W + I the three
\* float divisions and the addition decide it.  np.sqrt rounds correctly: it
\* gives 1.0 exactly for the radicands 1.0 and 1.0 + 2^-52
Rudd_G2_Kind(T, W) ==
  IF W + IONIZATIONENERGYH = 0 THEN "zero"
  ELSE IF Sgn(W + IONIZATIONENERGYH) # Sgn(T) THEN "nan"
  ELSE IF T - W - IONIZATIONENERGYH # 0
  THEN (IF Abs(W + IONIZATIONENERGYH) < Abs(T) THEN "below" ELSE "above")
  ELSE CHOOSE g2 \in
         {IF FLess(q, FOne) THEN "below"
          ELSE IF q = FOne \/ q = FOnePlusUlp THEN "one"
          ELSE "above" :
            q \in {FDiv(FAdd(FDiv(PyFloat(W), PyFloat(IONIZATIONENERGYH)), FOne),
                        FDiv(PyFloat(T), PyFloat(IONIZATIONENERGYH)))}} : TRUE

\* __G2: np.sqrt((w + 1.0) / t); the quotient divides Python floats
Rudd_G2(T, W) ==
  Chain(<<PyDiv(Finite, Finite, T = 0)>>,
        Ret(IF Rudd_G2_Kind(T, W) = "nan" THEN NonFinite ELSE Finite))

\* beta * np.sqrt((1.0 - G2(W)**2) / w) in __G3: the quotient divides a
\* numpy.float64, by 0.0 when W = 0.  1.0 - G2**2 has the sign of 1.0 - G2.
\* The result is "nan", "zero", a positive number "pos" or "inf"
Rudd_G3_Kind(T, W) ==
  CHOOSE g3 \in
    {IF g2 = "nan" THEN "nan"
     ELSE IF W = 0 THEN (IF g2 \in {"zero", "below"} THEN "inf" ELSE "nan")
     ELSE IF g2 = "one" THEN "zero"
     ELSE IF (g2 \in {"zero", "below"}) = (W > 0) THEN "pos"
     ELSE "nan" : g2 \in {Rudd_G2_Kind(T, W)}} : TRUE

\* __G3: w = W / I, then the call of __G2
Rudd_G3(T, W) ==
  Chain(<<Rudd_G2(T, W)>>,
        Ret(IF Rudd_G3_Kind(T, W) \in {"zero", "pos"} THEN Finite ELSE NonFinite))

\* __G4: gamma * (1 - w / t)**3 / (t * (w + 1))
Rudd_G4(T, W) ==
  Chain(<<PyDiv(Finite, Finite, T = 0),
          PyDiv(Finite, Finite, W + IONIZATIONENERGYH = 0)>>, Ret(Finite))

\* __gBE: 2 pi G3 (arctan((1 - G2) / G3) + arctan((1 + G2) / G3)); the
\* quotients divide numpy.float64 values.  G3 == 0 comes with G2 == 1 and
\* gives 0/0; G3 == inf gives inf * 0
Rudd_gBE(T, W) ==
  Chain(<<Rudd_G3(T, W), Rudd_G2(T, W)>>,
        Ret(IF Rudd_G3_Kind(T, W) = "pos" THEN Finite ELSE NonFinite))

\* __G1: (S() * F() * f_1(W) / I) / (gBE(W) + G4(W) * 2.9), operands left to
\* right; the outer quotient divides by a numpy.float64
Rudd_G1(T, W) ==
  CHOOSE g1 \in
    {Chain(<<Rudd_S, f, Rudd_f_1(T, W), gBE, Rudd_G4(T, W)>>,
           Ret(Class(TRUE, <<f, gBE>>))) :
       f \in {Rudd_F(T)}, gBE \in {Rudd_gBE(T, W)}} : TRUE

\* TotalXSec: self.__S() * self.__F() * self.__g_1()
Rudd_TotalXSec(T) ==
  LET f == Rudd_F(T)
  IN Chain(<<Rudd_S, f, Rudd_g_1(T)>>, Ret(Class(TRUE, <<f>>)))

\* SinglyDifferentialXSec_W: G1(W) * (gBE(W) + G4(W) * 2.9)
Rudd_SinglyDifferentialXSec_W(T, W) ==
  CHOOSE out \in
    {Chain(<<g1, Rudd_gBE(T, W), Rudd_G4(T, W)>>, g1) :
       g1 \in {Rudd_G1(T, W)}} : TRUE

\* __fBE: 1 / (1 + ((np.cos(theta) - G2(W)) / G3(W))**2); numpy.float64
\* throughout.  G3 == inf gives 1.0; G3 == 0 (then G2 == 1) gives 0/0 when
\* np.cos(theta) == 1.0 and 1 / inf otherwise
Rudd_fBE(T, W, theta) ==
  CHOOSE fBE \in
    {Chain(<<Rudd_G2(T, W), Rudd_G3(T, W)>>,
           Ret(IF g3 \in {"pos", "inf"} \/ (g3 = "zero" /\ ~CosIsOne(theta))
               THEN Finite ELSE NonFinite)) :
       g3 \in {Rudd_G3_Kind(T, W)}} : TRUE

\* __G4fb: G4(W) / (1 + ((np.cos(theta) + 1) / G5)**2)
Rudd_G4fb(T, W, theta) == Rudd_G4(T, W)

\* DoublyDifferentialXSec: G1(W) * (fBE(W, theta) + G4fb(W, theta))
Rudd_DoublyDifferentialXSec(T, W, theta) ==
  CHOOSE out \in
    {Chain(<<g1, fBE, Rudd_G4fb(T, W, theta)>>, Ret(Class(TRUE, <<g1, fBE>>))) :
       g1 \in {Rudd_G1(T, W)}, fBE \in {Rudd_fBE(T, W, theta)}} : TRUE

----------------------------------------------------------------------------
(* Mott.py *)

\* the value scipy.integrate.quad returns for the integral, quad(...)[0]
Integral == [ty |-> "integral", n |-> 0, d |-> 1]

\* the estimate of the absolute error quad returns beside it, quad(...)[1]
AbsErr == [ty |-> "abserr", n |-> 0, d |-> 1]

\* quad(f, -1, 1): the pair (integral, error estimate)
Quad == <<Integral, AbsErr>>

\* A float computed by Python arithmetic is known by its class and by the
\* expression that produced it: a tree of the operations applied, in the
\* order Python applies them, over the leaves below.  Two floats produced by
\* one and the same tree are the same float.
Float(ty, expr) == [ty |-> ty, n |-> 0, d |-> 1, expr |-> expr]

\* leaves: a named constant, a float literal n/d, an int literal, self.__T
Const(name) == <<"const", name>>
FloatLit(n, d) == <<"float", n, d>>
IntLit(n) == <<"int", n>>
SelfT(T) == <<"self.__T", T>>

\* operations
Mul(x, y) == <<"*", x, y>>
Div(x, y) == <<"/", x, y>>
Add(x, y) == <<"+", x, y>>
Sub(x, y) == <<"-", x, y>>
Sq(x) == <<"**", x, IntLit(2)>>

\* the cosTheta a caller passes: np.cos(theta), a numpy.float64, in
\* SinglyDifferentialXSec_theta
NpCos(theta) ==
  [leaf |-> <<"np.cos", theta>>, isOne |-> CosIsOne(theta), numpy |-> TRUE]

\* the cosTheta quad passes first: the midpoint 0.0 of [-1, 1], a Python
\* float (quad evaluates the integrand at interior nodes only)
QuadNode == [leaf |-> FloatLit(0, 1), isOne |-> FALSE, numpy |-> FALSE]

\* __RutherfordDCS: (pi/2) alpha^2 (hbar c / (T e))^2 / (1 - cosTheta)^2.
\* hbar c / (T e) divides Python floats; the last quotient divides by a
\* numpy.float64 when cosTheta comes from np.cos, by a Python float when it
\* comes from quad
Mott_RutherfordDCS(T, cosTheta) ==
  Chain(<<PyDiv(Finite, Finite, T = 0),
          IF cosTheta.numpy THEN Ret(Finite) ELSE PyDiv(Finite, Finite, cosTheta.isOne)>>,
        Ret(Float(IF cosTheta.isOne THEN "nonfinite" ELSE "finite",
                  Div(Mul(Mul(Div(Const("np.pi"), FloatLit(2, 1)), Sq(Const("sc.alpha"))),
                          Sq(Div(Mul(Const("sc.hbar"), Const("sc.c")),
                                 Mul(SelfT(T), Const("sc.e"))))),
                      Sq(Sub(IntLit(1), cosTheta.leaf))))))

\* SinglyDifferentialXSec_theta: RutherfordDCS(np.cos(theta)) * mottFactor,
\* mottFactor = ((1 + cos) / 2) / (1 + (1 - cos) T e / (nuclMass c^2)) with
\* nuclMass = 3.01604928 m_u; for T >= 0 its divisor is at least 1
Mott_SinglyDifferentialXSec_theta(T, theta) ==
  LET cosTheta == NpCos(theta)
      ruthXSec == Mott_RutherfordDCS(T, cosTheta)
      nuclMass == Mul(FloatLit(301604928, 100000000), Const("sc.m_u"))
      mottFactor ==
        Div(Div(Add(IntLit(1), cosTheta.leaf), IntLit(2)),
            Add(IntLit(1),
                Div(Mul(Mul(Sub(IntLit(1), cosTheta.leaf), SelfT(T)), Const("sc.e")),
                    Mul(nuclMass, Sq(Const("sc.c"))))))
  IN Chain(<<ruthXSec>>,
           Ret(Float(ruthXSec.val.ty, Mul(ruthXSec.val.expr, mottFactor))))

\* the integrand with the proton mass 1.00727647 m_u in the recoil factor
Mott_MottDCSTmp_ProtonMass(T, cosTheta) ==
  LET ruthXSec == Mott_RutherfordDCS(T, cosTheta)
      nuclMass == Mul(FloatLit(100727647, 100000000), Const("sc.m_u"))
      mottFactor ==
        Div(Div(Add(IntLit(1), cosTheta.leaf), IntLit(2)),
            Add(IntLit(1),
                Div(Mul(Mul(Sub(IntLit(1), cosTheta.leaf), SelfT(T)), Const("sc.e")),
                    Mul(nuclMass, Sq(Const("sc.c"))))))
  IN Chain(<<ruthXSec>>,
           Ret(Float(ruthXSec.val.ty, Mul(ruthXSec.val.expr, mottFactor))))

\* MottDCSTmp, the integrand defined inside TotalXSec:
\* RutherfordDCS(cosTheta) * mottFactor, nuclMass = 3.01604928 m_u
Mott_MottDCSTmp(T, cosTheta) ==
  LET ruthXSec == Mott_RutherfordDCS(T, cosTheta)
      nuclMass == Mul(FloatLit(301604928, 100000000), Const("sc.m_u"))
      mottFactor ==
        Div(Div(Add(IntLit(1), cosTheta.leaf), IntLit(2)),
            Add(IntLit(1),
                Div(Mul(Mul(Sub(IntLit(1), cosTheta.leaf), SelfT(T)), Const("sc.e")),
                    Mul(nuclMass, Sq(Const("sc.c"))))))
  IN Chain(<<ruthXSec>>,
           Ret(Float(ruthXSec.val.ty, Mul(ruthXSec.val.expr, mottFactor))))

\* TotalXSec: quad(MottDCSTmp, -1, 1)[0].  An exception of the integrand
\* propagates out of quad; otherwise the first element of the pair is
\* returned
Mott_TotalXSec(T) ==
  Chain(<<Mott_MottDCSTmp(T, QuadNode)>>, Ret(Quad[1]))

----------------------------------------------------------------------------
(* Stone2002.py *)

\* the tabulated energies, given in eV, in model units
Energies(s) == [i \in 1..Len(s) |-> eV(s[i])]

\* Cross-sections are carried in units of 1e-26 m^2: the table entry
\* 0.15876 (times 1e-20 by `xsecs = xsecs * 1e-20`) is 158760.
XSec2pData ==
  [energies |-> Energies(<<
       11, 12, 13, 14, 15, 16, 17, 18, 19, 20,
       21, 22, 23, 24, 26, 28, 30, 32, 34, 36,
       38, 40, 45, 50, 55, 60, 65, 70, 75, 80,
       85, 90, 95, 100, 110, 120, 130, 140, 150, 160,
       170, 180, 190, 200, 250, 300, 350, 400, 450, 500,
       600, 700, 800, 900, 1000, 1500, 2000, 3000>>),
   xsecs |-> <<
       158760, 240990, 310860, 351190, 392560, 427860, 458280, 484680, 507680, 527790,
       545400, 560840, 574390, 586270, 605800, 620690, 631890, 640130, 645970, 649860,
       652160, 653150, 651300, 645200, 636470, 626150, 614890, 603150, 591210, 579290,
       567500, 555930, 544650, 533690, 512760, 493220, 475000, 458050, 442270, 427560,
       413830, 401000, 388980, 377710, 330450, 294450, 266070, 243090, 224080, 208070,
       182540, 163030, 147600, 135050, 124630, 90940, 72360, 52140>>]

\* the 3p table with its first energy tabulated at 12 eV, below the 3p threshold
XSec3pData_FirstEnergy12 ==
  [energies |-> Energies(<<
       12, 14, 15, 16, 17, 18, 19, 20, 21, 22,
       23, 24, 26, 28, 30, 32, 34, 36, 38, 40,
       45, 50, 55, 60, 65, 70, 75, 80, 85, 90,
       95, 100, 110, 120, 130, 140, 150, 160, 170, 180,
       190, 200, 250, 300, 350, 400, 450, 500, 600, 700,
       800, 900, 1000, 1500, 2000, 3000>>),
   xsecs |-> <<
       30330, 43820, 53720, 61660, 68270, 73870, 78670, 82820, 86420, 89570,
       92310, 94720, 98670, 101690, 103980, 105690, 106950, 107820, 108400, 108720,
       108700, 107870, 106540, 104900, 103080, 101160, 99190, 97210, 95240, 93310,
       91420, 89590, 86070, 82780, 79720, 76860, 74200, 71710, 69400, 67230,
       65200, 63300, 55330, 49260, 44470, 40600, 37410, 34710, 30420, 27150,
       24560, 22460, 20710, 15080, 11980, 8620>>]

XSec3pData ==
  [energies |-> Energies(<<
       13, 14, 15, 16, 17, 18, 19, 20, 21, 22,
       23, 24, 26, 28, 30, 32, 34, 36, 38, 40,
       45, 50, 55, 60, 65, 70, 75, 80, 85, 90,
       95, 100, 110, 120, 130, 140, 150, 160, 170, 180,
       190, 200, 250, 300, 350, 400, 450, 500, 600, 700,
       800, 900, 1000, 1500, 2000, 3000>>),
   xsecs |-> <<
       30330, 43820, 53720, 61660, 68270, 73870, 78670, 82820, 86420, 89570,
       92310, 94720, 98670, 101690, 103980, 105690, 106950, 107820, 108400, 108720,
       108700, 107870, 106540, 104900, 103080, 101160, 99190, 97210, 95240, 93310,
       91420, 89590, 86070, 82780, 79720, 76860, 74200, 71710, 69400, 67230,
       65200, 63300, 55330, 49260, 44470, 40600, 37410, 34710, 30420, 27150,
       24560, 22460, 20710, 15080, 11980, 8620>>]

XSec4pData ==
  [energies |-> Energies(<<
       13, 14, 15, 16, 17, 18, 19, 20, 21, 22,
       23, 24, 26, 28, 30, 32, 34, 36, 38, 40,
       45, 50, 55, 60, 65, 70, 75, 80, 85, 90,
       95, 100, 110, 120, 130, 140, 150, 160, 170, 180,
       190, 200, 250, 300, 350, 400, 450, 500, 600, 700,
       800, 900, 1000, 1500, 2000, 3000>>),
   xsecs |-> <<
       5730, 12740, 16970, 20180, 22780, 24960, 26810, 28400, 29770, 30960,
       32000, 32910, 34400, 35540, 36410, 37060, 37540, 37880, 38110, 38250,
       38280, 38010, 37560, 37000, 36360, 35690, 35000, 34310, 33620, 32940,
       32270, 31620, 30380, 29220, 28140, 27130, 26190, 25310, 24490, 23720,
       23010, 22330, 19520, 17370, 15680, 14310, 13180, 12230, 10710, 9560,
       8650, 7900, 7290, 5300, 4210, 3030>>]

XSec5pData ==
  [energies |-> Energies(<<
       14, 15, 16, 17, 18, 19, 20, 21, 22, 23,
       24, 26, 28, 30, 32, 34, 36, 38, 40, 45,
       50, 55, 60, 65, 70, 75, 80, 85, 90, 95,
       100, 110, 120, 130, 140, 150, 160, 170, 180, 190,
       200, 250, 300, 350, 400, 450, 500, 600, 700, 800,
       900, 1000, 1500, 2000, 3000>>),
   xsecs |-> <<
       5280, 7520, 9160, 10460, 11540, 12450, 13230, 13910, 14490, 15000,
       15440, 16170, 16730, 17150, 17470, 17710, 17870, 17990, 18060, 18080,
       17960, 17750, 17490, 17190, 16880, 16550, 16220, 15900, 15570, 15260,
       14950, 14370, 13820, 13310, 12830, 12380, 11970, 11580, 11220, 10880,
       10560, 9230, 8210, 7410, 6760, 6230, 5780, 5060, 4520, 4080,
       3730, 3440, 2500, 1990, 1430>>]

XSec6pData ==
  [energies |-> Energies(<<
       14, 15, 16, 17, 18, 19, 20, 21, 22, 23,
       24, 26, 28, 30, 32, 34, 36, 38, 40, 45,
       50, 55, 60, 65, 70, 75, 80, 85, 90, 95,
       100, 110, 120, 130, 140, 150, 160, 170, 180, 190,
       200, 250, 300, 350, 400, 450, 500, 600, 700, 800,
       900, 1000, 1500, 2000, 3000>>),
   xsecs |-> <<
       2670, 4010, 4960, 5700, 6320, 6840, 7280, 7660, 7990, 8280,
       8530, 8940, 9250, 9490, 9670, 9810, 9900, 9970, 10010, 10020,
       9960, 9840, 9700, 9530, 9360, 9180, 9000, 8820, 8640, 8460,
       8290, 7970, 7660, 7380, 7120, 6870, 6640, 6420, 6220, 6030,
       5860, 5120, 4550, 4110, 3750, 3450, 3200, 2810, 2500, 2260,
       2070, 1910, 1390, 1100, 791>>]

\* an interpolation that extends the last segment above xp[-1] instead of
\* returning fp[-1]
NpInterp_Extrapolate(x, xp, fp) ==
  LET len == Len(xp)
      j == IF x < xp[1] THEN 1
           ELSE IF x >= xp[len] THEN len - 1
           ELSE CHOOSE i \in 1..(len - 1) : xp[i] <= x /\ x < xp[i + 1]
      g == GCD(Abs(x - xp[j]), xp[j + 1] - xp[j])
      rn == (x - xp[j]) \div g
      rd == (xp[j + 1] - xp[j]) \div g
  IN IF x < xp[1] THEN Num(fp[1], 1)
     ELSE Num(fp[j] * rd + (fp[j + 1] - fp[j]) * rn, rd)

\* np.interp(x, xp, fp) for a scalar x, with the default left and right:
\* below xp[0] it is fp[0] and above xp[-1] it is fp[-1]; otherwise, with j
\* the index the binary search finds (xp[j] <= x < xp[j+1]), it is fp[j]
\* when j is the last index or x == xp[j], and else
\* slope * (x - xp[j]) + fp[j] with slope = (fp[j+1] - fp[j]) / (xp[j+1] - xp[j])
NpInterp(x, xp, fp) ==
  LET len == Len(xp)
  IN IF x < xp[1] THEN Num(fp[1], 1)
     ELSE IF x > xp[len] THEN Num(fp[len], 1)
     ELSE LET j == CHOOSE i \in 1..len :
                     xp[i] <= x /\ (i = len \/ x < xp[i + 1])
          IN IF j = len THEN Num(fp[len], 1)
             ELSE IF xp[j] = x THEN Num(fp[j], 1)
             ELSE LET g == GCD(x - xp[j], xp[j + 1] - xp[j])
                      rn == (x - xp[j]) \div g
                      rd == (xp[j + 1] - xp[j]) \div g
                  IN Num(fp[j] * rd + (fp[j + 1] - fp[j]) * rn, rd)

\* the thresholds 10.204, 12.094, 12.755, 13.061 and 13.228 eV
Threshold2p == 1020400
Threshold3p == 1209400
Threshold4p == 1275500
Threshold5p == 1306100
Threshold6p == 1322800

Exc_CalcXSec2p(T) ==
  LET data == XSec2pData
  IN IF T < Threshold2p THEN Ret(Num(0, 1))
     ELSE Ret(NpInterp(T, data.energies, data.xsecs))

\* CalcXSec3p with the threshold of CalcXSec2p
Exc_CalcXSec3p_Threshold2p(T) ==
  LET data == XSec3pData
  IN IF T < Threshold2p THEN Ret(Num(0, 1))
     ELSE Ret(NpInterp(T, data.energies, data.xsecs))

Exc_CalcXSec3p(T) ==
  LET data == XSec3pData
  IN IF T < Threshold3p THEN Ret(Num(0, 1))
     ELSE Ret(NpInterp(T, data.energies, data.xsecs))

Exc_CalcXSec4p(T) ==
  LET data == XSec4pData
  IN IF T < Threshold4p THEN Ret(Num(0, 1))
     ELSE Ret(NpInterp(T, data.energies, data.xsecs))

Exc_CalcXSec5p(T) ==
  LET data == XSec5pData
  IN IF T < Threshold5p THEN Ret(Num(0, 1))
     ELSE Ret(NpInterp(T, data.energies, data.xsecs))

Exc_CalcXSec6p(T) ==
  LET data == XSec6pData
  IN IF T < Threshold6p THEN Ret(Num(0, 1))
     ELSE Ret(NpInterp(T, data.energies, data.xsecs))

\* a sum that leaves out the 6p state
Exc_TotalXSec_Without6p(T) ==
  Ret(RAdd(RAdd(RAdd(Exc_CalcXSec2p(T).val, Exc_CalcXSec3p(T).val),
                Exc_CalcXSec4p(T).val),
           Exc_CalcXSec5p(T).val))

\* TotalXSec: CalcXSec2p() + CalcXSec3p() + CalcXSec4p() + CalcXSec5p() + CalcXSec6p()
Exc_TotalXSec(T) ==
  Ret(RAdd(RAdd(RAdd(RAdd(Exc_CalcXSec2p(T).val, Exc_CalcXSec3p(T).val),
                     Exc_CalcXSec4p(T).val),
                Exc_CalcXSec5p(T).val),
           Exc_CalcXSec6p(T).val))

----------------------------------------------------------------------------
(* Constructors *)

NoSpecies == ""

Kim1994_init(T, species) ==
  [cls |-> "Kim1994", T |-> T, species |-> species, t |-> Num(0, 1)]

\* self.__t = self.__T / myconst.IONIZATIONENERGYH
RuddXSec_init(T) ==
  [cls |-> "RuddXSec", T |-> T, species |-> NoSpecies,
   t |-> Num(T, IONIZATIONENERGYH)]

MottXSec_init(T) ==
  [cls |-> "MottXSec", T |-> T, species |-> NoSpecies, t |-> Num(0, 1)]

ExcitationXSec_init(T) ==
  [cls |-> "ExcitationXSec", T |-> T, species |-> NoSpecies, t |-> Num(0, 1)]

\* the energy t * IONIZATIONENERGYH that a stored self.__t stands for
EnergyOf(t) == t.n * (IONIZATIONENERGYH \div t.d)

----------------------------------------------------------------------------
(* Inputs *)

\* the number of distinct calls followed on one instance
MaxCalls == 6

KimSpecies == {"H", "He", "H2", "Li"}
\* 0, 10 and 100 eV, and -B of hydrogen
KimTs == {0, eV(10), eV(100), -1360570}
KimYs == {1, 2}
KimWs == {-1, 1}
\* outgoing energies: 10 and 100 eV, and -B of hydrogen
KimBigWs == {eV(10), eV(100), -1360570}

RuddTs == {0, eV(100), eV(1000)}
RuddWs == {eV(10), eV(100)}
\* scattering angles, milliradians
Thetas == {0, 1571}

MottTs == {0, eV(1000), eV(18600)}

\* energies at each threshold and 0.001 eV either side, tabulated energies,
\* energies between them and energies beyond the last one
ExcTs ==
  UNION {{th - 100, th, th + 100} :
           th \in {Threshold2p, Threshold3p, Threshold4p, Threshold5p, Threshold6p}}
  \cup {0, eV(5), eV(10), eV(11), eV(12), eV(13), eV(14), eV(20), eV(3000)}
  \cup {1150000, 1250000, 1350000, 1475000, eV(25), eV(1250), eV(2500)}
  \cup {eV(3001), eV(5000)}

Instances ==
  {Kim1994_init(T, sp) : T \in KimTs, sp \in KimSpecies}
  \cup {RuddXSec_init(T) : T \in RuddTs}
  \cup {MottXSec_init(T) : T \in MottTs}
  \cup {ExcitationXSec_init(T) : T \in ExcTs}

----------------------------------------------------------------------------
(* The instance and the calls made on it *)

Init ==
  /\ inst \in Instances
  /\ inst0 = inst
  /\ seen = {}

\* the call m(a, b) ends with outcome out; no method assigns to a field
Call(m, a, b, out) ==
  /\ \/ \E r \in seen : r.m = m /\ r.a = a /\ r.b = b
     \/ Cardinality(seen) < MaxCalls
  /\ seen' = seen \cup {[m |-> m, a |-> a, b |-> b, out |-> out]}
  /\ UNCHANGED <<inst, inst0>>

Kim_Call_DiffOscillatorStrength(y) ==
  /\ inst.cls = "Kim1994"
  /\ Call("DiffOscillatorStrength", y, 0, Kim_DiffOscillatorStrength(y, inst.species))

Kim_Call_DiffOscillatorStrength_w(w) ==
  /\ inst.cls = "Kim1994"
  /\ Call("DiffOscillatorStrength_w", w, 0, Kim_DiffOscillatorStrength_w(w, inst.species))

Kim_Call_SingleDiffXSec_W(W) ==
  /\ inst.cls = "Kim1994"
  /\ Call("SingleDiffXSec_W", W, 0, Kim_SingleDiffXSec_W(inst.T, W, inst.species))

Kim_Call_TotalXSec ==
  /\ inst.cls = "Kim1994"
  /\ Call("TotalXSec", 0, 0, Kim_TotalXSec(inst.T, inst.species))

Kim_Call_N ==
  /\ inst.cls = "Kim1994"
  /\ Call("_N", 0, 0, Kim_N(inst.species))

Kim_Call_B ==
  /\ inst.cls = "Kim1994"
  /\ Call("_B", 0, 0, Kim_B(inst.species))

Kim_Call_U ==
  /\ inst.cls = "Kim1994"
  /\ Call("_U", 0, 0, Kim_U(inst.species))

Kim_Call_Ni ==
  /\ inst.cls = "Kim1994"
  /\ Call("_Ni", 0, 0, Kim_Ni(inst.species))

Rudd_Call_TotalXSec ==
  /\ inst.cls = "RuddXSec"
  /\ Call("TotalXSec", 0, 0, Rudd_TotalXSec(EnergyOf(inst.t)))

Rudd_Call_SinglyDifferentialXSec_W(W) ==
  /\ inst.cls = "RuddXSec"
  /\ Call("SinglyDifferentialXSec_W", W, 0,
          Rudd_SinglyDifferentialXSec_W(EnergyOf(inst.t), W))

Rudd_Call_DoublyDifferentialXSec(W, theta) ==
  /\ inst.cls = "RuddXSec"
  /\ Call("DoublyDifferentialXSec", W, theta,
          Rudd_DoublyDifferentialXSec(EnergyOf(inst.t), W, theta))

Mott_Call_SinglyDifferentialXSec_theta(theta) ==
  /\ inst.cls = "MottXSec"
  /\ Call("SinglyDifferentialXSec_theta", theta, 0,
          Mott_SinglyDifferentialXSec_theta(inst.T, theta))

Mott_Call_TotalXSec ==
  /\ inst.cls = "MottXSec"
  /\ Call("TotalXSec", 0, 0, Mott_TotalXSec(inst.T))

\* CalcXSec2p storing the energy it looked up, raised to the first tabulated
\* energy, back into self.__T
Exc_Call_CalcXSec2p_StoresT ==
  /\ inst.cls = "ExcitationXSec"
  /\ \/ \E r \in seen : r.m = "CalcXSec2p"
     \/ Cardinality(seen) < MaxCalls
  /\ seen' = seen \cup {[m |-> "CalcXSec2p", a |-> 0, b |-> 0,
                         out |-> Exc_CalcXSec2p(inst.T)]}
  /\ inst' = [inst EXCEPT !.T = IF inst.T < eV(11) THEN eV(11) ELSE inst.T]
  /\ UNCHANGED inst0

Exc_Call_CalcXSec2p ==
  /\ inst.cls = "ExcitationXSec"
  /\ Call("CalcXSec2p", 0, 0, Exc_CalcXSec2p(inst.T))

Exc_Call_CalcXSec3p ==
  /\ inst.cls = "ExcitationXSec"
  /\ Call("CalcXSec3p", 0, 0, Exc_CalcXSec3p(inst.T))

Exc_Call_CalcXSec4p ==
  /\ inst.cls = "ExcitationXSec"
  /\ Call("CalcXSec4p", 0, 0, Exc_CalcXSec4p(inst.T))

Exc_Call_CalcXSec5p ==
  /\ inst.cls = "ExcitationXSec"
  /\ Call("CalcXSec5p", 0, 0, Exc_CalcXSec5p(inst.T))

Exc_Call_CalcXSec6p ==
  /\ inst.cls = "ExcitationXSec"
  /\ Call("CalcXSec6p", 0, 0, Exc_CalcXSec6p(inst.T))

Exc_Call_XSec2pData ==
  /\ inst.cls = "ExcitationXSec"
  /\ Call("XSec2pData", 0, 0, Ret(Arrays(XSec2pData)))

Exc_Call_XSec3pData ==
  /\ inst.cls = "ExcitationXSec"
  /\ Call("XSec3pData", 0, 0, Ret(Arrays(XSec3pData)))

Exc_Call_XSec4pData ==
  /\ inst.cls = "ExcitationXSec"
  /\ Call("XSec4pData", 0, 0, Ret(Arrays(XSec4pData)))

Exc_Call_XSec5pData ==
  /\ inst.cls = "ExcitationXSec"
  /\ Call("XSec5pData", 0, 0, Ret(Arrays(XSec5pData)))

Exc_Call_XSec6pData ==
  /\ inst.cls = "ExcitationXSec"
  /\ Call("XSec6pData", 0, 0, Ret(Arrays(XSec6pData)))

Exc_Call_TotalXSec ==
  /\ inst.cls = "ExcitationXSec"
  /\ Call("TotalXSec", 0, 0, Exc_TotalXSec(inst.T))

Next ==
  \/ \E y \in KimYs : Kim_Call_DiffOscillatorStrength(y)
  \/ \E w \in KimWs : Kim_Call_DiffOscillatorStrength_w(w)
  \/ \E W \in KimBigWs : Kim_Call_SingleDiffXSec_W(W)
  \/ Kim_Call_TotalXSec
  \/ Kim_Call_N
  \/ Kim_Call_B
  \/ Kim_Call_U
  \/ Kim_Call_Ni
  \/ Rudd_Call_TotalXSec
  \/ \E W \in RuddWs : Rudd_Call_SinglyDifferentialXSec_W(W)
  \/ \E W \in RuddWs, theta \in Thetas : Rudd_Call_DoublyDifferentialXSec(W, theta)
  \/ \E theta \in Thetas : Mott_Call_SinglyDifferentialXSec_theta(theta)
  \/ Mott_Call_TotalXSec
  \/ Exc_Call_CalcXSec2p
  \/ Exc_Call_CalcXSec3p
  \/ Exc_Call_CalcXSec4p
  \/ Exc_Call_CalcXSec5p
  \/ Exc_Call_CalcXSec6p
  \/ Exc_Call_XSec2pData
  \/ Exc_Call_XSec3pData
  \/ Exc_Call_XSec4pData
  \/ Exc_Call_XSec5pData
  \/ Exc_Call_XSec6pData
  \/ Exc_Call_TotalXSec

Spec == Init /\ [][Next]_vars

----------------------------------------------------------------------------
(* Properties *)

Supported == {"H", "He", "H2"}

KimPublic ==
  {"DiffOscillatorStrength", "DiffOscillatorStrength_w", "SingleDiffXSec_W", "TotalXSec"}

KimHelpers == {"_N", "_B", "_U", "_Ni"}

States == {"2p", "3p", "4p", "5p", "6p"}

CalcName(s) ==
  CASE s = "2p" -> "CalcXSec2p" [] s = "3p" -> "CalcXSec3p" [] s = "4p" -> "CalcXSec4p"
    [] s = "5p" -> "CalcXSec5p" [] s = "6p" -> "CalcXSec6p"

\* the threshold the specification gives for each state, model units
StatedThreshold(s) ==
  CASE s = "2p" -> 1020400 [] s = "3p" -> 1209400 [] s = "4p" -> 1275500
    [] s = "5p" -> 1306100 [] s = "6p" -> 1322800

\* the table of each state
TableOf(s) ==
  CASE s = "2p" -> XSec2pData [] s = "3p" -> XSec3pData [] s = "4p" -> XSec4pData
    [] s = "5p" -> XSec5pData [] s = "6p" -> XSec6pData

Zero == Num(0, 1)

Called(m) == \E r \in seen : r.m = m

\* the value a recorded call of the argumentless method m returned
Returned(m) == (CHOOSE r \in seen : r.m = m).out.val

\* The piecewise-linear interpolant of the points (E[i], X[i]) at T, in the
\* two-point form: on a segment it is the average of the two end values
\* weighted by the distances to the opposite ends; outside the table it is
\* the nearest end value.
PiecewiseLinear(T, E, X) ==
  LET len == Len(E)
  IN IF T <= E[1] THEN Num(X[1], 1)
     ELSE IF T >= E[len] THEN Num(X[len], 1)
     ELSE LET i == CHOOSE k \in 1..(len - 1) : E[k] <= T /\ T < E[k + 1]
              g == GCD(GCD(T - E[i], E[i + 1] - T), E[i + 1] - E[i])
              left == (T - E[i]) \div g
              right == (E[i + 1] - T) \div g
          IN Num(X[i] * right + X[i + 1] * left, left + right)

\* C1: on a Kim1994 whose species is none of H, He and H2, every call of a
\* public method ends by raising ValueError; none returns, none raises
\* another exception.
C1_UnsupportedSpeciesRaises ==
  (inst.cls = "Kim1994" /\ inst.species \notin Supported) =>
    \A r \in seen : r.m \in KimPublic => r.out = Raise("ValueError")

C1_Witness ==
  /\ inst.cls = "Kim1994"
  /\ inst.species \notin Supported
  /\ \A m \in KimPublic : Called(m)

\* C2: on a Kim1994 whose species is none of H, He and H2, each of the
\* helpers _N, _B, _U and _Ni raises ValueError; none returns a value.
C2_HelpersRaise ==
  (inst.cls = "Kim1994" /\ inst.species \notin Supported) =>
    \A r \in seen : r.m \in KimHelpers => r.out = Raise("ValueError")

\* C3: on a RuddXSec constructed with T > 0 every public method returns a
\* number; no call ends in an error.
C3_RuddCallsReturn ==
  (inst.cls = "RuddXSec" /\ inst.T > 0) =>
    \A r \in seen : r.out.kind = "return" /\ IsNumber(r.out.val)

\* C4: at each threshold, and 0.001 eV above it, CalcXSec<state>() returns
\* the value 0 it returns below the threshold: no jump.
C4_NoJumpAtThreshold ==
  \A s \in States :
    (/\ inst.cls = "ExcitationXSec"
     /\ inst.T \in {StatedThreshold(s), StatedThreshold(s) + 100}
     /\ Called(CalcName(s)))
    => Returned(CalcName(s)) = Zero

\* C5: on a Kim1994 with a supported species, TotalXSec() and
\* SingleDiffXSec_W(W) raise nothing, whatever T and W are (T = 0, W = T and
\* W = -B included): they return a number, possibly an infinity or a NaN.
\* Stated here for the energies T >= 0 alone.
C5_NoNumericException ==
  (inst.cls = "Kim1994" /\ inst.species \in Supported /\ inst.T >= 0) =>
    \A r \in seen : r.m \in {"TotalXSec", "SingleDiffXSec_W"} =>
      r.out.kind = "return" /\ IsNumber(r.out.val)

\* C6: CalcXSec<state>() returns exactly 0 when T is below the state's own
\* threshold and otherwise the piecewise-linear interpolation of the state's
\* own table at T.
C6_ThresholdThenInterpolation ==
  \A s \in States :
    (inst.cls = "ExcitationXSec" /\ Called(CalcName(s))) =>
      \A r \in seen : r.m = CalcName(s) =>
        r.out = Ret(IF inst.T < StatedThreshold(s) THEN Zero
                    ELSE PiecewiseLinear(inst.T, TableOf(s).energies, TableOf(s).xsecs))

\* at 12.5 eV the 2p state is inside a segment of its table, the 3p state is
\* above its threshold and below its table, the others are below threshold
C6_Witness ==
  /\ inst.cls = "ExcitationXSec"
  /\ inst.T = 1250000
  /\ \A s \in States : Called(CalcName(s))

\* C7: above the largest tabulated energy (3000 eV) CalcXSec<state>() returns
\* the cross-section of the last table point, and at a tabulated energy it
\* returns the cross-section stored for that energy.
C7_ClampAndGridPoints ==
  \A s \in States :
    (inst.cls = "ExcitationXSec" /\ Called(CalcName(s))) =>
      LET E == TableOf(s).energies
          X == TableOf(s).xsecs
      IN /\ inst.T > eV(3000) => Returned(CalcName(s)) = Num(X[Len(X)], 1)
         /\ \A i \in 1..Len(E) : inst.T = E[i] => Returned(CalcName(s)) = Num(X[i], 1)

C7_Witness ==
  /\ inst.cls = "ExcitationXSec"
  /\ inst.T = eV(5000)
  /\ \A s \in States : Called(CalcName(s))

\* C8: TotalXSec() equals the sum of the five CalcXSec<state>() values at the
\* same T; a state whose threshold is above T contributes 0, and the total
\* is 0 below the lowest threshold, 10.204 eV.
C8_TotalIsSumOfPartials ==
  (inst.cls = "ExcitationXSec" /\ Called("TotalXSec")) =>
    /\ (\A s \in States : Called(CalcName(s))) =>
         Returned("TotalXSec") =
           RAdd(RAdd(RAdd(RAdd(Returned("CalcXSec2p"), Returned("CalcXSec3p")),
                          Returned("CalcXSec4p")),
                     Returned("CalcXSec5p")),
                Returned("CalcXSec6p"))
    /\ \A s \in States :
         (inst.T < StatedThreshold(s) /\ Called(CalcName(s))) =>
           Returned(CalcName(s)) = Zero
    /\ inst.T < StatedThreshold("2p") => Returned("TotalXSec") = Zero
    /\ \A r \in seen : r.out.kind = "return"

\* at 13.5 eV every state is above its threshold
C8_Witness ==
  /\ inst.cls = "ExcitationXSec"
  /\ inst.T = 1350000
  /\ Called("TotalXSec")
  /\ \A s \in States : Called(CalcName(s))

\* C9: after any sequence of calls the fields of the instance (T, species,
\* t) are those set at construction, and two calls of one method with the
\* same arguments have the same outcome, whatever was called in between.
C9_PureMethods ==
  /\ inst = inst0
  /\ \A r1, r2 \in seen :
       (r1.m = r2.m /\ r1.a = r2.a /\ r1.b = r2.b) => r1.out = r2.out

\* an ExcitationXSec below the 2p table after CalcXSec2p and other calls
C9_Witness ==
  /\ inst.cls = "ExcitationXSec"
  /\ inst.T = eV(10)
  /\ Called("CalcXSec2p")
  /\ Called("TotalXSec")
  /\ Cardinality(seen) >= 3

\* C11: for each supported species DiffOscillatorStrength,
\* DiffOscillatorStrength_w and _D embed one and the same set of six
\* coefficients, with a = 0: the values the two oscillator-strength methods
\* return are those the coefficient set of _D gives.
C11_OneCoefficientSet ==
  (inst.cls = "Kim1994" /\ inst.species \in Supported) =>
    LET co == Coeff_D(inst.species)
    IN /\ Len(co) = 6
       /\ co[1] = 0
       /\ Coeff_DiffOscillatorStrength(inst.species) = co
       /\ Coeff_DiffOscillatorStrength_w(inst.species) = co
       /\ \A r \in seen : r.m = "DiffOscillatorStrength" =>
            r.out = Ret(Num(co[1] * r.a + co[2] * Pow(r.a, 2) + co[3] * Pow(r.a, 3)
                            + co[4] * Pow(r.a, 4) + co[5] * Pow(r.a, 5)
                            + co[6] * Pow(r.a, 6), 1000000))
       /\ \A r \in seen : (r.m = "DiffOscillatorStrength_w" /\ r.a # -1) =>
            r.out = Ret(Num(co[1] * Pow(r.a + 1, 5) + co[2] * Pow(r.a + 1, 4)
                            + co[3] * Pow(r.a + 1, 3) + co[4] * Pow(r.a + 1, 2)
                            + co[5] * (r.a + 1) + co[6],
                            1000000 * Pow(r.a + 1, 6)))

C11_Witness ==
  /\ inst.cls = "Kim1994"
  /\ inst.species = "H2"
  /\ \E r \in seen : r.m = "DiffOscillatorStrength" /\ r.a = 2
  /\ \E r \in seen : r.m = "DiffOscillatorStrength_w" /\ r.a = 1

DataName(s) ==
  CASE s = "2p" -> "XSec2pData" [] s = "3p" -> "XSec3pData" [] s = "4p" -> "XSec4pData"
    [] s = "5p" -> "XSec5pData" [] s = "6p" -> "XSec6pData"

\* the threshold CalcXSec<state> compares T with
ThresholdOf(s) ==
  CASE s = "2p" -> Threshold2p [] s = "3p" -> Threshold3p [] s = "4p" -> Threshold4p
    [] s = "5p" -> Threshold5p [] s = "6p" -> Threshold6p

\* C12: every call of XSec<state>Data returns an energies sequence and a
\* cross-sections sequence of equal length with strictly increasing
\* energies; the threshold of the state lies strictly below the first
\* tabulated energy, and the last tabulated energy is 3000 eV.
C12_TablesWellFormed ==
  \A s \in States : \A r \in seen :
    (inst.cls = "ExcitationXSec" /\ r.m = DataName(s)) =>
      /\ r.out.kind = "return"
      /\ r.out.val.ty = "arrays"
      /\ LET E == r.out.val.energies
             X == r.out.val.xsecs
         IN /\ Len(E) = Len(X)
            /\ Len(E) > 0
            /\ \A i \in 1..(Len(E) - 1) : E[i] < E[i + 1]
            /\ ThresholdOf(s) < E[1]
            /\ E[Len(E)] = eV(3000)

C12_Witness ==
  /\ inst.cls = "ExcitationXSec"
  /\ \A s \in States : Called(DataName(s))
  /\ Called("CalcXSec3p")

RECURSIVE Leaves(_)
\* the leaves of an expression tree
Leaves(e) ==
  IF e[1] \in {"*", "/", "+", "-", "**"} THEN Leaves(e[2]) \cup Leaves(e[3]) ELSE {e}

\* C13: the integrand of MottXSec.TotalXSec(), evaluated at
\* cosTheta = np.cos(theta), is SinglyDifferentialXSec_theta(theta): the
\* same outcome, from the same expression, whose only float literals are
\* the 2.0 of the Rutherford term and the triton mass 3.01604928 (in u);
\* TotalXSec() returns the integral alone, without the error estimate.
C13_IntegrandIsDifferentialXSec ==
  inst.cls = "MottXSec" =>
    /\ \A r \in seen : r.m = "SinglyDifferentialXSec_theta" =>
         /\ r.out = Mott_MottDCSTmp(inst.T, NpCos(r.a))
         /\ r.out.kind = "return" =>
              {l \in Leaves(r.out.val.expr) : l[1] = "float"}
                = {FloatLit(2, 1), FloatLit(301604928, 100000000)}
    /\ \A r \in seen : (r.m = "TotalXSec" /\ r.out.kind = "return") =>
         /\ r.out.val = Integral
         /\ r.out.val # AbsErr

C13_Witness ==
  /\ inst.cls = "MottXSec"
  /\ inst.T = eV(18600)
  /\ \E r \in seen : r.m = "SinglyDifferentialXSec_theta" /\ r.a = 0
                       /\ r.out.kind = "return"
  /\ \E r \in seen : r.m = "SinglyDifferentialXSec_theta" /\ r.a = 1571
                       /\ r.out.val.ty = "finite"
  /\ \E r \in seen : r.m = "TotalXSec" /\ r.out.kind = "return"

====
